---- MODULE Spec2Model ----
(***************************************************************************)
(* A model of the postgres schema reader (bdb/drivers/postgres.go), its    *)
(* type translator, and the relationship naming engine                     *)
(* (textsFromForeignKey, textsFromOneToOneRelationship,                    *)
(* textsFromRelationship, mkFunctionName).                                 *)
(*                                                                         *)
(* Go strings are TLA+ strings; a Go (value, error) pair is the record     *)
(* [val, err]; a nil slice is the empty sequence.  One operation runs at a *)
(* time: op names it, arg holds its arguments, pc its position.            *)
(***************************************************************************)
EXTENDS Integers, Sequences, FiniteSets, TLC

VARIABLES
    op,       \* the operation in progress ("none" when idle)
    arg,      \* its arguments
    pc,       \* "idle", "loop" (inside for rows.Next()), "done" (returned)
    rset,     \* sql.Rows: the rows the catalog query selected
    idx,      \* sql.Rows: how many of them rows.Next() has delivered
    rowsErr,  \* sql.Rows: what rows.Err() reports
    acc,      \* the slice the loop appends to (names, columns, fkeys)
    err,      \* the handler's local err: the last error it was handed
    pkey,     \* PrimaryKeyInfo's pkey := &bdb.PrimaryKey{}
    ret       \* the returned [val, err]

vars == <<op, arg, pc, rset, idx, rowsErr, err, acc, pkey, ret>>

----------------------------------------------------------------------------
\* Bounds of the model.

\* The longest result set a catalog query returns.
MaxRows == 2

----------------------------------------------------------------------------
\* Go's strings package.

LowerAlpha == "abcdefghijklmnopqrstuvwxyz"
UpperAlpha == "ABCDEFGHIJKLMNOPQRSTUVWXYZ"

CharAt(s, i) == SubSeq(s, i, i)

HasPrefix(s, p) == Len(s) >= Len(p) /\ SubSeq(s, 1, Len(p)) = p

HasSuffix(s, p) == Len(s) >= Len(p) /\ SubSeq(s, Len(s) - Len(p) + 1, Len(s)) = p

TrimPrefix(s, p) == IF HasPrefix(s, p) THEN SubSeq(s, Len(p) + 1, Len(s)) ELSE s

TrimSuffix(s, p) == IF HasSuffix(s, p) THEN SubSeq(s, 1, Len(s) - Len(p)) ELSE s

ToUpperChar(c) ==
    IF \E i \in 1..26 : CharAt(LowerAlpha, i) = c
    THEN CharAt(UpperAlpha, CHOOSE i \in 1..26 : CharAt(LowerAlpha, i) = c)
    ELSE c

ToLowerChar(c) ==
    IF \E i \in 1..26 : CharAt(UpperAlpha, i) = c
    THEN CharAt(LowerAlpha, CHOOSE i \in 1..26 : CharAt(UpperAlpha, i) = c)
    ELSE c

RECURSIVE ToLower(_)
ToLower(s) ==
    IF s = "" THEN "" ELSE ToLowerChar(CharAt(s, 1)) \o ToLower(SubSeq(s, 2, Len(s)))

\* strings.Replace(s, old, new, -1) for a one-character old.
RECURSIVE ReplaceAll(_, _, _)
ReplaceAll(s, old, new) ==
    IF s = "" THEN ""
    ELSE (IF CharAt(s, 1) = old THEN new ELSE CharAt(s, 1))
         \o ReplaceAll(SubSeq(s, 2, Len(s)), old, new)

\* strings.Join(parts, sep)
RECURSIVE Join(_, _)
Join(parts, sep) ==
    IF parts = <<>> THEN ""
    ELSE IF Len(parts) = 1 THEN parts[1]
    ELSE parts[1] \o sep \o Join(Tail(parts), sep)

----------------------------------------------------------------------------
\* The strmangle package (inflection and identifier case).

\* strmangle.StringMap(modifier, strs) with modifier quoteStr
quoteStr(x) == "'" \o x \o "'"

StringMapQuote(strs) == [i \in 1..Len(strs) |-> quoteStr(strs[i])]

\* TitleCase: the words between underscores, each capitalised, joined.
RECURSIVE TitleFrom(_, _)
TitleFrom(s, atStart) ==
    IF s = "" THEN ""
    ELSE LET c == CharAt(s, 1)
             rest == SubSeq(s, 2, Len(s))
         IN IF c = "_" THEN TitleFrom(rest, TRUE)
            ELSE (IF atStart THEN ToUpperChar(c) ELSE c) \o TitleFrom(rest, FALSE)

TitleCase(name) == TitleFrom(name, TRUE)

\* CamelCase: as TitleCase, the first word left in lower case.
CamelCase(name) == TitleFrom(name, FALSE)

\* Singular and Plural: the regular English rule.
Singular(name) == IF HasSuffix(name, "s") THEN TrimSuffix(name, "s") ELSE name

Plural(name) == IF HasSuffix(name, "s") THEN name ELSE name \o "s"

----------------------------------------------------------------------------
\* Errors.

NilErr == [cause |-> "nil", msg |-> ""]

\* An error of database/sql or of the driver: it has no message of ours.
DriverErr(what) == [cause |-> what, msg |-> ""]

\* sql.ErrNoRows
ErrNoRows == DriverErr("sql: no rows in result set")

\* errors.Wrapf(err, format, args...): the message in front of the cause.
Wrapf(e, msg) == [cause |-> e.cause, msg |-> msg]

----------------------------------------------------------------------------
\* What the database can answer.

Elems(seq) == {seq[i] : i \in 1..Len(seq)}

SeqsUpTo(S, n) == UNION {[1..k -> S] : k \in 0..n}

\* information_schema.tables, schema public
Catalog == {"customers", "invoices", "gorp_migrations"}

\* The tables the per-table operations are asked about.
TableArgs == {"customers", "invoices"}

ExcludeLists == {<<>>, <<"gorp_migrations">>, <<"gorp_migrations", "invoices">>}

\* Rows of the Columns query: column_default is a *string (null: a nil pointer).
ColumnRows ==
    { [column_name |-> "id", data_type |-> "uuid",
       column_default |-> [null |-> FALSE, val |-> "gen_random_uuid()"],
       is_nullable |-> "NO", is_unique |-> TRUE],
      [column_name |-> "customer_id", data_type |-> "integer",
       column_default |-> [null |-> TRUE, val |-> ""],
       is_nullable |-> "YES", is_unique |-> FALSE] }

PKeyNames == {"customers_pkey"}

PKeyColumnRows == {"id", "tenant_id"}

\* Rows of the ForeignKeyInfo query.
FKeyRows ==
    { [constraint_name |-> "invoices_customer_id_fkey", source_table |-> "invoices",
       source_column |-> "customer_id", dest_table |-> "customers", dest_column |-> "id"],
      [constraint_name |-> "invoices_billing_customer_id_fkey", source_table |-> "invoices",
       source_column |-> "billing_customer_id", dest_table |-> "customers",
       dest_column |-> "id"] }

----------------------------------------------------------------------------
\* State shared by the operations.

NoArg == [none |-> TRUE]

NoRet == [val |-> <<>>, err |-> NilErr]

ZeroPKey == [Name |-> "", Columns |-> <<>>]

\* A nil *bdb.PrimaryKey
NilPKey == [isNil |-> TRUE, Name |-> "", Columns |-> <<>>]

Init ==
    /\ op = "none"
    /\ arg = NoArg
    /\ pc = "idle"
    /\ rset = <<>>
    /\ idx = 0
    /\ rowsErr = NilErr
    /\ err = NilErr
    /\ acc = <<>>
    /\ pkey = ZeroPKey
    /\ ret = NoRet

\* A call begins: the handler's locals at their zero values.
Enter(name, a) ==
    /\ pc = "idle"
    /\ op' = name
    /\ arg' = a
    /\ idx' = 0
    /\ rowsErr' = NilErr
    /\ acc' = <<>>

\* return v, e
Returns(v, e) ==
    /\ pc' = "done"
    /\ ret' = [val |-> v, err |-> e]

\* dbConn.Query succeeded with these rows; the handler enters its loop.
Opens(rows) ==
    /\ pc' = "loop"
    /\ rset' = rows
    /\ err' = NilErr
    /\ ret' = NoRet

\* rows.Next() is true: the next row is delivered.
NextTrue ==
    /\ pc = "loop"
    /\ idx < Len(rset)
    /\ idx' = idx + 1

\* rows.Next() is false: the result set is exhausted, or the iteration failed
\* with rows still undelivered, which rows.Err() then reports.
NextFalse ==
    /\ pc = "loop"
    /\ \/ idx = Len(rset) /\ rowsErr' = NilErr
       \/ idx < Len(rset) /\ rowsErr' = DriverErr("iteration failed")

\* The caller takes the result; the driver is idle again.
Return ==
    /\ pc = "done"
    /\ op' = "none"
    /\ arg' = NoArg
    /\ pc' = "idle"
    /\ rset' = <<>>
    /\ idx' = 0
    /\ rowsErr' = NilErr
    /\ err' = NilErr
    /\ acc' = <<>>
    /\ pkey' = ZeroPKey
    /\ ret' = NoRet

----------------------------------------------------------------------------
\* TableNames

TableNamesQuery(exclude) ==
    "select table_name from information_schema.tables where table_schema = 'public'"
    \o (IF Len(exclude) > 0
        THEN "and table_name not in (" \o Join(StringMapQuote(exclude), ",") \o ");"
        ELSE "")

TableNamesBegin ==
    \E exclude \in ExcludeLists :
        /\ Enter("TableNames", [exclude |-> exclude, query |-> TableNamesQuery(exclude)])
        /\ \/ /\ err' = DriverErr("query failed")
              /\ Returns(<<>>, err')
              /\ rset' = <<>>
           \/ \E rows \in SeqsUpTo(Catalog \ Elems(exclude), MaxRows) : Opens(rows)
        /\ UNCHANGED pkey

TableNamesIterate ==
    /\ op = "TableNames"
    /\ NextTrue
    /\ \/ /\ acc' = Append(acc, rset[idx'])
          /\ UNCHANGED <<pc, ret, err>>
       \/ /\ err' = DriverErr("scan failed")
          /\ Returns(<<>>, err')
          /\ UNCHANGED acc
    /\ UNCHANGED <<op, arg, rset, rowsErr, pkey>>

TableNamesFinish ==
    /\ op = "TableNames"
    /\ NextFalse
    /\ Returns(acc, NilErr)
    /\ UNCHANGED <<op, arg, rset, idx, err, acc, pkey>>

----------------------------------------------------------------------------
\* Columns

validatedTypes == <<"uuid">>

isValidated(typ) == \E i \in 1..Len(validatedTypes) : validatedTypes[i] = typ

\* The bdb.Column built from one scanned row.
ColumnFromRow(row) ==
    [Name |-> row.column_name,
     DBType |-> row.data_type,
     Default |-> IF row.column_default.null THEN "" ELSE row.column_default.val,
     Nullable |-> (row.is_nullable = "YES"),
     Unique |-> row.is_unique,
     Validated |-> isValidated(row.data_type),
     Type |-> ""]

ColumnsBegin ==
    \E tableName \in TableArgs :
        /\ Enter("Columns", [tableName |-> tableName])
        /\ \/ /\ err' = DriverErr("query failed")
              /\ Returns(<<>>, err')
              /\ rset' = <<>>
           \/ \E rows \in SeqsUpTo(ColumnRows, MaxRows) : Opens(rows)
        /\ UNCHANGED pkey

ColumnsIterate ==
    /\ op = "Columns"
    /\ NextTrue
    /\ \/ /\ acc' = Append(acc, ColumnFromRow(rset[idx']))
          /\ UNCHANGED <<pc, ret, err>>
       \/ /\ err' = DriverErr("scan failed")
          /\ Returns(<<>>, Wrapf(err', "unable to scan for table " \o arg.tableName))
          /\ UNCHANGED acc
    /\ UNCHANGED <<op, arg, rset, rowsErr, pkey>>

ColumnsFinish ==
    /\ op = "Columns"
    /\ NextFalse
    /\ Returns(acc, NilErr)
    /\ UNCHANGED <<op, arg, rset, idx, err, acc, pkey>>

----------------------------------------------------------------------------
\* PrimaryKeyInfo

PrimaryKeyInfoBegin ==
    \E tableName \in TableArgs :
        /\ Enter("PrimaryKeyInfo", [tableName |-> tableName])
        /\ \/ \* row.Scan(&pkey.Name): the table has no primary-key constraint
              /\ err' = ErrNoRows
              /\ Returns(NilPKey, NilErr)
              /\ pkey' = ZeroPKey
              /\ rset' = <<>>
           \/ \* row.Scan fails otherwise
              /\ err' = DriverErr("query failed")
              /\ Returns(NilPKey, err')
              /\ pkey' = ZeroPKey
              /\ rset' = <<>>
           \/ \* the constraint is found; the column query fails
              \E name \in PKeyNames :
                  /\ pkey' = [Name |-> name, Columns |-> <<>>]
                  /\ err' = DriverErr("query failed")
                  /\ Returns(NilPKey, err')
                  /\ rset' = <<>>
           \/ \* the constraint is found; the column query answers
              \E name \in PKeyNames, rows \in SeqsUpTo(PKeyColumnRows, MaxRows) :
                  /\ pkey' = [Name |-> name, Columns |-> <<>>]
                  /\ Opens(rows)

PrimaryKeyInfoIterate ==
    /\ op = "PrimaryKeyInfo"
    /\ NextTrue
    /\ \/ /\ acc' = Append(acc, rset[idx'])
          /\ UNCHANGED <<pc, ret, err>>
       \/ /\ err' = DriverErr("scan failed")
          /\ Returns(NilPKey, err')
          /\ UNCHANGED acc
    /\ UNCHANGED <<op, arg, rset, rowsErr, pkey>>

\* Mutant: rows.Err() is not checked after the loop.
PrimaryKeyInfoFinish_NoErrCheck ==
    /\ op = "PrimaryKeyInfo"
    /\ NextFalse
    /\ pkey' = [pkey EXCEPT !.Columns = acc]
    /\ Returns([isNil |-> FALSE, Name |-> pkey'.Name, Columns |-> pkey'.Columns], NilErr)
    /\ UNCHANGED <<op, arg, rset, idx, err, acc>>

PrimaryKeyInfoFinish ==
    /\ op = "PrimaryKeyInfo"
    /\ NextFalse
    /\ err' = rowsErr'
    /\ IF err' # NilErr
       THEN Returns(NilPKey, err') /\ UNCHANGED pkey
       ELSE /\ pkey' = [pkey EXCEPT !.Columns = acc]
            /\ Returns([isNil |-> FALSE, Name |-> pkey'.Name, Columns |-> pkey'.Columns],
                       NilErr)
    /\ UNCHANGED <<op, arg, rset, idx, acc>>

----------------------------------------------------------------------------
\* ForeignKeyInfo

\* The bdb.ForeignKey built from one scanned row (source_table is scanned
\* into a local and dropped; the flags keep their zero values).
FKeyFromRow(tableName, row) ==
    [Table |-> tableName,
     Name |-> row.constraint_name,
     Column |-> row.source_column,
     Nullable |-> FALSE,
     Unique |-> FALSE,
     ForeignTable |-> row.dest_table,
     ForeignColumn |-> row.dest_column,
     ForeignColumnNullable |-> FALSE,
     ForeignColumnUnique |-> FALSE]

ForeignKeyInfoBegin ==
    \E tableName \in TableArgs :
        /\ Enter("ForeignKeyInfo", [tableName |-> tableName])
        /\ \/ /\ err' = DriverErr("query failed")
              /\ Returns(<<>>, err')
              /\ rset' = <<>>
           \/ \E rows \in SeqsUpTo(FKeyRows, MaxRows) : Opens(rows)
        /\ UNCHANGED pkey

ForeignKeyInfoIterate ==
    /\ op = "ForeignKeyInfo"
    /\ NextTrue
    /\ \/ /\ acc' = Append(acc, FKeyFromRow(arg.tableName, rset[idx']))
          /\ UNCHANGED <<pc, ret, err>>
       \/ /\ err' = DriverErr("scan failed")
          /\ Returns(<<>>, err')
          /\ UNCHANGED acc
    /\ UNCHANGED <<op, arg, rset, rowsErr, pkey>>

ForeignKeyInfoFinish ==
    /\ op = "ForeignKeyInfo"
    /\ NextFalse
    /\ err' = rowsErr'
    /\ IF err' # NilErr
       THEN Returns(<<>>, err')
       ELSE Returns(acc, NilErr)
    /\ UNCHANGED <<op, arg, rset, idx, acc, pkey>>

----------------------------------------------------------------------------
\* TranslateColumnType

\* The switch taken when c.Nullable.
NullableType(dbType) ==
    CASE dbType \in {"bigint", "bigserial"} -> "null.Int64"
      [] dbType \in {"integer", "serial"} -> "null.Int"
      [] dbType \in {"smallint", "smallserial"} -> "null.Int16"
      [] dbType \in {"decimal", "numeric", "double precision", "money"} -> "null.Float64"
      [] dbType = "real" -> "null.Float32"
      [] dbType \in {"bit", "interval", "bit varying", "character", "character varying",
                     "cidr", "inet", "json", "macaddr", "text", "uuid", "xml"} ->
            "null.String"
      [] dbType = "bytea" -> "[]byte"
      [] dbType = "boolean" -> "null.Bool"
      [] dbType \in {"date", "time", "timestamp without time zone",
                     "timestamp with time zone"} -> "null.Time"
      [] OTHER -> "null.String"

\* The switch taken otherwise.
BareType(dbType) ==
    CASE dbType \in {"bigint", "bigserial"} -> "int64"
      [] dbType \in {"integer", "serial"} -> "int"
      [] dbType \in {"smallint", "smallserial"} -> "int16"
      [] dbType \in {"decimal", "numeric", "double precision", "money"} -> "float64"
      [] dbType = "real" -> "float32"
      [] dbType \in {"bit", "interval", "uuint", "bit varying", "character",
                     "character varying", "cidr", "inet", "json", "macaddr", "text",
                     "uuid", "xml"} -> "string"
      [] dbType = "bytea" -> "[]byte"
      [] dbType = "boolean" -> "bool"
      [] dbType \in {"date", "time", "timestamp without time zone",
                     "timestamp with time zone"} -> "time.Time"
      [] OTHER -> "string"

\* Mutant: the nullable switch is forgotten.
TranslateColumnType_IgnoresNullable(c) == [c EXCEPT !.Type = BareType(c.DBType)]

\* Mutant: the two switches are swapped.
TranslateColumnType_Swapped(c) ==
    [c EXCEPT !.Type = IF c.Nullable THEN BareType(c.DBType) ELSE NullableType(c.DBType)]

TranslateColumnType(c) ==
    [c EXCEPT !.Type = IF c.Nullable THEN NullableType(c.DBType) ELSE BareType(c.DBType)]

\* The native types postgres reports (information_schema.columns.data_type).
PostgresTypes ==
    {"bigint", "bigserial", "integer", "serial", "smallint", "smallserial", "decimal",
     "numeric", "double precision", "money", "real", "bit", "interval", "bit varying",
     "character", "character varying", "cidr", "inet", "json", "macaddr", "text", "uuid",
     "xml", "bytea", "boolean", "date", "time", "timestamp without time zone",
     "timestamp with time zone"}

\* Native type strings the translator has no case for.
OtherTypes == {"", "uuint", "jsonb", "ARRAY", "USER-DEFINED", "INTEGER", "point"}

\* The columns handed to the translator: as Columns() built them.
ColumnArgs ==
    {[Name |-> n, DBType |-> t, Default |-> "", Nullable |-> nl, Unique |-> u,
      Validated |-> isValidated(t), Type |-> ""] :
        n \in {"id", "data"}, t \in PostgresTypes \cup OtherTypes,
        nl \in BOOLEAN, u \in BOOLEAN}

\* A pure operation issues no query and sees no error.
NoQuery ==
    /\ err' = NilErr
    /\ UNCHANGED <<rset, pkey>>

TranslateColumnTypeCall ==
    \E c \in ColumnArgs :
        /\ Enter("TranslateColumnType", [c |-> c])
        /\ Returns(TranslateColumnType(c), NilErr)
        /\ NoQuery

----------------------------------------------------------------------------
\* mkFunctionName

\* Mutant: the "_id" suffix is not stripped.
mkFunctionName_NoTrim(fkeyTableSingular, foreignTablePluralGo, fkeyColumn, toJoinTable) ==
    IF toJoinTable \/ fkeyTableSingular = fkeyColumn
    THEN foreignTablePluralGo
    ELSE TitleCase(fkeyColumn) \o foreignTablePluralGo

\* Mutant: && for ||.
mkFunctionName_And(fkeyTableSingular, foreignTablePluralGo, fkeyColumn, toJoinTable) ==
    LET colName == TrimSuffix(fkeyColumn, "_id")
    IN IF toJoinTable /\ fkeyTableSingular = colName
       THEN foreignTablePluralGo
       ELSE TitleCase(colName) \o foreignTablePluralGo

\* Mutant: the name is taken from the table alone, never from the column.
mkFunctionName_TableOnly(fkeyTableSingular, foreignTablePluralGo, fkeyColumn, toJoinTable) ==
    foreignTablePluralGo

mkFunctionName(fkeyTableSingular, foreignTablePluralGo, fkeyColumn, toJoinTable) ==
    LET colName == TrimSuffix(fkeyColumn, "_id")
    IN IF toJoinTable \/ fkeyTableSingular = colName
       THEN foreignTablePluralGo
       ELSE TitleCase(colName) \o foreignTablePluralGo

SingularArgs == {"invoice", "customer", "employee", "user"}

PluralGoArgs == {"Customers", "Invoices", "Employees", "Videos"}

ColumnNameArgs ==
    {"billing_customer_id", "customer_id", "customer", "manager_id", "employee_id",
     "user_id", "user", "id", "paid", "customer_identity"}

mkFunctionNameCall ==
    \E s \in SingularArgs, p \in PluralGoArgs, c \in ColumnNameArgs, j \in BOOLEAN :
        /\ Enter("mkFunctionName",
                 [fkeyTableSingular |-> s, foreignTablePluralGo |-> p,
                  fkeyColumn |-> c, toJoinTable |-> j])
        /\ Returns(mkFunctionName(s, p, c, j), NilErr)
        /\ NoQuery

----------------------------------------------------------------------------
\* The schema graph the naming engine reads (package bdb).

\* bdb.Table.GetColumn(name)
GetColumn(table, name) ==
    table.Columns[CHOOSE i \in 1..Len(table.Columns) : table.Columns[i].Name = name]

\* bdb.GetTable(tables, name)
GetTable(tables, name) ==
    tables[CHOOSE i \in 1..Len(tables) : tables[i].Name = name]

\* The to-many relationship a foreign key gives the table it points to.
ToManyFromForeignKey(fkey) ==
    [Table |-> fkey.ForeignTable,
     Column |-> fkey.ForeignColumn,
     Nullable |-> fkey.ForeignColumnNullable,
     Unique |-> fkey.ForeignColumnUnique,
     ForeignTable |-> fkey.Table,
     ForeignColumn |-> fkey.Column,
     ForeignColumnNullable |-> fkey.Nullable,
     ForeignColumnUnique |-> fkey.Unique,
     ToJoinTable |-> FALSE,
     JoinTable |-> "",
     JoinLocalColumn |-> "",
     JoinForeignColumn |-> ""]

\* The to-many relationship through a join table: local is the join table's
\* foreign key to the local table, other its foreign key to the far table.
ToManyThroughJoinTable(local, other) ==
    [Table |-> local.ForeignTable,
     Column |-> local.ForeignColumn,
     Nullable |-> local.ForeignColumnNullable,
     Unique |-> local.ForeignColumnUnique,
     ForeignTable |-> other.ForeignTable,
     ForeignColumn |-> other.ForeignColumn,
     ForeignColumnNullable |-> other.ForeignColumnNullable,
     ForeignColumnUnique |-> other.ForeignColumnUnique,
     ToJoinTable |-> TRUE,
     JoinTable |-> local.Table,
     JoinLocalColumn |-> local.Column,
     JoinForeignColumn |-> other.Column]

\* A column of the graph: an integer key, its type translated.
KeyColumn(name, nullable, unique) ==
    TranslateColumnType([Name |-> name, DBType |-> "integer", Default |-> "",
                         Nullable |-> nullable, Unique |-> unique,
                         Validated |-> isValidated("integer"), Type |-> ""])

\* The tables a relationship lies between, with the columns it names.
SchemaOf(rel) ==
    LET localCol == KeyColumn(rel.Column, rel.Nullable, rel.Unique)
        foreignCol ==
            KeyColumn(rel.ForeignColumn, rel.ForeignColumnNullable, rel.ForeignColumnUnique)
    IN IF rel.Table = rel.ForeignTable
       THEN << [Name |-> rel.Table,
                Columns |-> IF rel.Column = rel.ForeignColumn
                            THEN <<localCol>> ELSE <<localCol, foreignCol>>] >>
       ELSE << [Name |-> rel.Table, Columns |-> <<localCol>>],
               [Name |-> rel.ForeignTable, Columns |-> <<foreignCol>>] >>

\* Foreign keys of the graph: Table.Column references ForeignTable.ForeignColumn.
ForeignKeys ==
    {[Table |-> t, Name |-> n, Column |-> c, Nullable |-> nl, Unique |-> u,
      ForeignTable |-> ft, ForeignColumn |-> "id",
      ForeignColumnNullable |-> FALSE, ForeignColumnUnique |-> TRUE] :
        t \in {"invoices", "employees", "videos"},
        n \in {"fk_a", "fk_b"},
        c \in {"customer_id", "billing_customer_id", "manager_id", "employee_id",
               "user_id"},
        nl \in BOOLEAN, u \in BOOLEAN,
        ft \in {"customers", "employees", "users"}}

\* Foreign keys of join tables: their columns are not nullable.
JoinTableForeignKeys ==
    {[Table |-> jt, Name |-> "fk_j", Column |-> c, Nullable |-> FALSE, Unique |-> FALSE,
      ForeignTable |-> ft, ForeignColumn |-> "id",
      ForeignColumnNullable |-> fnl, ForeignColumnUnique |-> TRUE] :
        jt \in {"user_videos", "video_tags"},
        c \in {"user_id", "video_id"},
        ft \in {"users", "videos"},
        fnl \in BOOLEAN}

\* The to-many relationships of the graph.
ToManyRelationships ==
    {ToManyFromForeignKey(fkey) : fkey \in ForeignKeys}
    \cup UNION {{ToManyThroughJoinTable(l, o) :
                    o \in {k \in JoinTableForeignKeys :
                             k.Table = l.Table /\ k.Column # l.Column}} :
                l \in JoinTableForeignKeys}

----------------------------------------------------------------------------
\* textsFromForeignKey

\* r.LocalTable
ToOneLocalTable(table, fkey) ==
    [NameGo |-> TitleCase(Singular(table.Name)),
     ColumnNameGo |-> TitleCase(Singular(fkey.Column))]

\* r.ForeignTable
ToOneForeignTable(fkey) ==
    [Name |-> fkey.ForeignTable,
     NameGo |-> TitleCase(Singular(fkey.ForeignTable)),
     NamePluralGo |-> TitleCase(Plural(fkey.ForeignTable)),
     ColumnName |-> fkey.ForeignColumn,
     ColumnNameGo |-> TitleCase(Singular(fkey.ForeignColumn))]

\* r.Function
ToOneFunction(packageName, tables, table, fkey) ==
    [PackageName |-> packageName,
     Name |-> TitleCase(Singular(TrimSuffix(fkey.Column, "_id"))),
     ForeignName |->
        mkFunctionName(Singular(fkey.ForeignTable),
                       TitleCase(IF fkey.Unique THEN Singular(fkey.Table)
                                                ELSE Plural(fkey.Table)),
                       fkey.Column, FALSE),
     Varname |-> CamelCase(Singular(fkey.ForeignTable)),
     Receiver |-> ToLower(SubSeq(table.Name, 1, 1)),
     OneToOne |-> FALSE,
     LocalAssignment |->
        IF fkey.Nullable
        THEN TitleCase(fkey.Column) \o "."
             \o TrimPrefix(GetColumn(table, fkey.Column).Type, "null.")
        ELSE TitleCase(fkey.Column),
     ForeignAssignment |->
        IF fkey.ForeignColumnNullable
        THEN TitleCase(fkey.ForeignColumn) \o "."
             \o TrimPrefix(GetColumn(GetTable(tables, fkey.ForeignTable),
                                     fkey.ForeignColumn).Type, "null.")
        ELSE TitleCase(fkey.ForeignColumn)]

\* The zero bdb.ForeignKey
ZeroForeignKey ==
    [Table |-> "", Name |-> "", Column |-> "", Nullable |-> FALSE, Unique |-> FALSE,
     ForeignTable |-> "", ForeignColumn |-> "", ForeignColumnNullable |-> FALSE,
     ForeignColumnUnique |-> FALSE]

\* Mutant: r.ForeignKey = fkey is left out.
textsFromForeignKey_NoForeignKey(packageName, tables, table, fkey) ==
    [ForeignKey |-> ZeroForeignKey,
     LocalTable |-> ToOneLocalTable(table, fkey),
     ForeignTable |-> ToOneForeignTable(fkey),
     Function |-> ToOneFunction(packageName, tables, table, fkey)]

textsFromForeignKey(packageName, tables, table, fkey) ==
    [ForeignKey |-> fkey,
     LocalTable |-> ToOneLocalTable(table, fkey),
     ForeignTable |-> ToOneForeignTable(fkey),
     Function |-> ToOneFunction(packageName, tables, table, fkey)]

PackageNames == {"models"}

textsFromForeignKeyCall ==
    \E packageName \in PackageNames, fkey \in ForeignKeys :
        LET tables == SchemaOf(ToManyFromForeignKey(fkey))
            table == GetTable(tables, fkey.Table)
        IN /\ Enter("textsFromForeignKey",
                    [packageName |-> packageName, tables |-> tables, table |-> table,
                     fkey |-> fkey])
           /\ Returns(textsFromForeignKey(packageName, tables, table, fkey), NilErr)
           /\ NoQuery

----------------------------------------------------------------------------
\* textsFromOneToOneRelationship

textsFromOneToOneRelationship(packageName, tables, table, toMany) ==
    LET fkey == [Table |-> toMany.Table,
                 Name |-> "none",
                 Column |-> toMany.Column,
                 Nullable |-> toMany.Nullable,
                 Unique |-> toMany.Unique,
                 ForeignTable |-> toMany.ForeignTable,
                 ForeignColumn |-> toMany.ForeignColumn,
                 ForeignColumnNullable |-> toMany.ForeignColumnNullable,
                 ForeignColumnUnique |-> toMany.ForeignColumnUnique]
        rel == textsFromForeignKey(packageName, tables, table, fkey)
    IN [rel EXCEPT
          !.Function.Name = TitleCase(Singular(toMany.ForeignTable)),
          !.Function.ForeignName =
              mkFunctionName(Singular(toMany.Table), TitleCase(Singular(toMany.Table)),
                             toMany.ForeignColumn, FALSE),
          !.Function.OneToOne = TRUE]

\* origin is the foreign key the relationship was inferred from: not an
\* argument of the function, kept beside its arguments.
textsFromOneToOneRelationshipCall ==
    \E packageName \in PackageNames, origin \in ForeignKeys :
        LET toMany == ToManyFromForeignKey(origin)
            tables == SchemaOf(toMany)
            table == GetTable(tables, toMany.Table)
        IN /\ Enter("textsFromOneToOneRelationship",
                    [packageName |-> packageName, tables |-> tables, table |-> table,
                     toMany |-> toMany, origin |-> origin])
           /\ Returns(textsFromOneToOneRelationship(packageName, tables, table, toMany),
                      NilErr)
           /\ NoQuery

----------------------------------------------------------------------------
\* textsFromRelationship

textsFromRelationship(tables, table, rel) ==
    LET localSingular == Singular(table.Name)
        foreignSingular == Singular(rel.ForeignTable)
        foreignPluralGo == TitleCase(Plural(rel.ForeignTable))
        foreignNamingColumn ==
            IF rel.ToJoinTable THEN rel.JoinLocalColumn ELSE rel.ForeignColumn
        stripped == TrimSuffix(foreignNamingColumn, "_id")
    IN [LocalTable |->
            [NameSingular |-> localSingular,
             NameGo |-> TitleCase(localSingular),
             ColumnNameGo |-> TitleCase(rel.Column)],
        ForeignTable |->
            [NameSingular |-> foreignSingular,
             NamePluralGo |-> foreignPluralGo,
             NameGo |-> TitleCase(foreignSingular),
             ColumnNameGo |-> TitleCase(rel.ForeignColumn),
             Slice |-> TitleCase(foreignSingular) \o "Slice",
             NameHumanReadable |-> ReplaceAll(rel.ForeignTable, "_", " ")],
        Function |->
            [Receiver |-> ToLower(SubSeq(table.Name, 1, 1)),
             Name |-> mkFunctionName(localSingular, foreignPluralGo, rel.ForeignColumn,
                                     rel.ToJoinTable),
             ForeignName |->
                TitleCase(IF rel.ToJoinTable THEN Plural(stripped) ELSE Singular(stripped)),
             LocalAssignment |->
                IF rel.Nullable
                THEN TitleCase(rel.Column) \o "."
                     \o TrimPrefix(GetColumn(table, rel.Column).Type, "null.")
                ELSE TitleCase(rel.Column),
             ForeignAssignment |->
                IF rel.ForeignColumnNullable
                THEN TitleCase(rel.ForeignColumn) \o "."
                     \o TrimPrefix(GetColumn(GetTable(tables, rel.ForeignTable),
                                             rel.ForeignColumn).Type, "null.")
                ELSE TitleCase(rel.ForeignColumn)]]

\* The foreign key a relationship was inferred from (for a join table, the
\* join table's foreign key to the local table).
OriginsOf(rel) ==
    IF rel.ToJoinTable
    THEN {k \in JoinTableForeignKeys :
            \E o \in JoinTableForeignKeys : ToManyThroughJoinTable(k, o) = rel}
    ELSE {k \in ForeignKeys : ToManyFromForeignKey(k) = rel}

textsFromRelationshipCall ==
    \E rel \in ToManyRelationships :
        \E origin \in OriginsOf(rel) :
            LET tables == SchemaOf(rel)
                table == GetTable(tables, rel.Table)
            IN /\ Enter("textsFromRelationship",
                        [tables |-> tables, table |-> table, rel |-> rel,
                         origin |-> origin])
               /\ Returns(textsFromRelationship(tables, table, rel), NilErr)
               /\ NoQuery

----------------------------------------------------------------------------
Next ==
    \/ TableNamesBegin \/ TableNamesIterate \/ TableNamesFinish
    \/ ColumnsBegin \/ ColumnsIterate \/ ColumnsFinish
    \/ PrimaryKeyInfoBegin \/ PrimaryKeyInfoIterate \/ PrimaryKeyInfoFinish
    \/ ForeignKeyInfoBegin \/ ForeignKeyInfoIterate \/ ForeignKeyInfoFinish
    \/ TranslateColumnTypeCall
    \/ mkFunctionNameCall
    \/ textsFromForeignKeyCall
    \/ textsFromOneToOneRelationshipCall
    \/ textsFromRelationshipCall
    \/ Return

Spec == Init /\ [][Next]_vars

----------------------------------------------------------------------------
\* Properties.

Done(name) == op = name /\ pc = "done"

\* s contains sub
Contains(s, sub) == \E i \in 1..(Len(s) - Len(sub) + 1) : SubSeq(s, i, i + Len(sub) - 1) = sub

\* The accessor name textsFromRelationship gives a relationship of the graph.
ToManyName(rel) ==
    textsFromRelationship(SchemaOf(rel), GetTable(SchemaOf(rel), rel.Table), rel).Function.Name

\* C1: any two distinct to-many relationships of one local table (differing in
\* foreign table, foreign-key column or join-table flag) get different
\* accessor names from textsFromRelationship.
C1_DistinctAccessorNames ==
    Done("textsFromRelationship") =>
        \A other \in ToManyRelationships :
            ( /\ other.Table = arg.rel.Table
              /\ <<other.ForeignTable, other.ForeignColumn, other.ToJoinTable>>
                 # <<arg.rel.ForeignTable, arg.rel.ForeignColumn, arg.rel.ToJoinTable>> )
            => ToManyName(other) # ret.val.Function.Name

InvoiceArgs ==
    [fkeyTableSingular |-> "invoice", foreignTablePluralGo |-> "Customers",
     fkeyColumn |-> "billing_customer_id", toJoinTable |-> FALSE]

\* C2 as stated: mkFunctionName("invoice", "Customers", "billing_customer_id",
\* false) is "BillingCustomers".
C2_BillingCustomers ==
    (Done("mkFunctionName") /\ arg = InvoiceArgs) => ret.val = "BillingCustomers"

\* C2 amended: mkFunctionName("invoice", "Customers", "billing_customer_id",
\* false) is "BillingCustomerCustomers": the title-cased stripped column name
\* followed by the whole plural foreign name.
C2_BillingCustomerCustomers ==
    (Done("mkFunctionName") /\ arg = InvoiceArgs) => ret.val = "BillingCustomerCustomers"

C2_Witness ==
    Done("mkFunctionName") /\ arg = InvoiceArgs /\ ret.val = "BillingCustomerCustomers"

\* The column is the singular table name, bare or followed by "_id".
ColumnNamesTable(column, singular) ==
    \/ column = singular \o "_id"
    \/ column = singular /\ ~HasSuffix(column, "_id")

\* C3: mkFunctionName returns the plural foreign name unchanged when the
\* join-table flag is set, whatever the column, and when the flag is clear and
\* the column with "_id" stripped is the singular table name.
C3_PluralForeignUnchanged ==
    ( /\ Done("mkFunctionName")
      /\ \/ arg.toJoinTable
         \/ ColumnNamesTable(arg.fkeyColumn, arg.fkeyTableSingular) )
    => ret.val = arg.foreignTablePluralGo

C3_Witness ==
    /\ Done("mkFunctionName")
    /\ arg.toJoinTable
    /\ arg.fkeyColumn = "billing_customer_id"
    /\ arg.fkeyTableSingular = "invoice"
    /\ ret.val = "Customers"

\* C4: TranslateColumnType never fails and always sets a non-empty semantic
\* type; a native type postgres does not have yields "null.String" when
\* nullable and "string" when not; no other field of the column changes.
C4_TranslationTotal ==
    Done("TranslateColumnType") =>
        /\ ret.err = NilErr
        /\ ret.val.Type # ""
        /\ arg.c.DBType \notin PostgresTypes =>
              ret.val.Type = (IF arg.c.Nullable THEN "null.String" ELSE "string")
        /\ [ret.val EXCEPT !.Type = arg.c.Type] = arg.c

C4_Witness ==
    /\ Done("TranslateColumnType")
    /\ arg.c.DBType = "jsonb"
    /\ arg.c.Nullable
    /\ ret.val.Type = "null.String"
    /\ ret.val.Name = arg.c.Name

\* The same column with the other nullability.
OtherNullability(c) == [c EXCEPT !.Nullable = ~c.Nullable]

\* C5 as stated: for every native type, the semantic type of the nullable
\* column differs from that of the non-nullable column.
C5_DiffersByNullability ==
    Done("TranslateColumnType") =>
        TranslateColumnType(OtherNullability(arg.c)).Type # ret.val.Type

\* C5 amended: the semantic type differs by nullability for every native type
\* but "bytea", which is "[]byte" either way; the type carries the "null."
\* wrapper exactly when the column is nullable and not bytea.
C5_DiffersExceptBytea ==
    Done("TranslateColumnType") =>
        /\ (TranslateColumnType(OtherNullability(arg.c)).Type = ret.val.Type)
              <=> (arg.c.DBType = "bytea")
        /\ HasPrefix(ret.val.Type, "null.") <=> (arg.c.Nullable /\ arg.c.DBType # "bytea")

C5_Witness ==
    /\ Done("TranslateColumnType")
    /\ arg.c.DBType = "bytea"
    /\ arg.c.Nullable
    /\ ret.val.Type = "[]byte"
    /\ TranslateColumnType(OtherNullability(arg.c)).Type = "[]byte"

PerTableOps == {"Columns", "PrimaryKeyInfo", "ForeignKeyInfo"}

\* e is a wrapped error whose message names the table.
IdentifiesTable(e, tableName) == e.msg # "" /\ Contains(e.msg, tableName)

\* C6: every error a per-table catalog operation returns is a wrapped error
\* that names the table being processed.
C6_ErrorsNameTheTable ==
    (pc = "done" /\ op \in PerTableOps /\ ret.err # NilErr)
    => IdentifiesTable(ret.err, arg.tableName)

\* C7: PrimaryKeyInfo returns (nil, nil) when the table has no primary-key
\* constraint; a non-nil primary key only when a constraint name was found,
\* with exactly the rows of the column query as its columns; on any other
\* failure an error and no primary key.
C7_PrimaryKeyInfo ==
    Done("PrimaryKeyInfo") =>
        /\ err = ErrNoRows => (ret.val = NilPKey /\ ret.err = NilErr)
        /\ ~ret.val.isNil =>
              /\ pkey.Name \in PKeyNames
              /\ ret.val.Name = pkey.Name
              /\ ret.val.Columns = rset
              /\ rowsErr = NilErr
              /\ ret.err = NilErr
        /\ (err \notin {NilErr, ErrNoRows} \/ rowsErr # NilErr) =>
              (ret.val = NilPKey /\ ret.err # NilErr)
        /\ ret.val.isNil \/ ret.err = NilErr

C7_Witness ==
    /\ Done("PrimaryKeyInfo")
    /\ err = ErrNoRows
    /\ ret.val.isNil
    /\ ret.err = NilErr

\* The foreign key a descriptor was derived from.
Origin == IF op = "textsFromForeignKey" THEN arg.fkey ELSE arg.origin

DescriptorOps ==
    {"textsFromForeignKey", "textsFromOneToOneRelationship", "textsFromRelationship"}

\* C8 as stated: the to-one, one-to-one and to-many descriptors each carry
\* the constraint name of the foreign key they come from.
C8_DescriptorsCarryConstraint ==
    (pc = "done" /\ op \in DescriptorOps) =>
        /\ "ForeignKey" \in DOMAIN ret.val
        /\ ret.val.ForeignKey.Name = Origin.Name

\* C8 amended: only the to-one descriptor of textsFromForeignKey carries the
\* foreign key (and so its constraint name); the one-to-one descriptor carries
\* a rebuilt key named "none"; the to-many descriptor carries no foreign key.
C8_OnlyToOneCarriesConstraint ==
    /\ Done("textsFromForeignKey") => ret.val.ForeignKey = arg.fkey
    /\ Done("textsFromOneToOneRelationship") =>
          /\ ret.val.ForeignKey.Name = "none"
          /\ ret.val.ForeignKey.Name # Origin.Name
    /\ Done("textsFromRelationship") => "ForeignKey" \notin DOMAIN ret.val

C8_Witness ==
    /\ Done("textsFromOneToOneRelationship")
    /\ arg.origin.Name = "fk_a"
    /\ ret.val.ForeignKey.Name = "none"

\* The names a relationship would get from the table name alone.
GenericNames(tableName) == {TitleCase(Singular(tableName)), TitleCase(Plural(tableName))}

SelfReferencing(fkey) == fkey.Table = fkey.ForeignTable

\* The to-one and to-many names of a self-referencing key differ from each
\* other and from the generic names.
SelfNamesDistinct ==
    LET one == ret.val.Function.Name
        many == textsFromRelationship(arg.tables, arg.table,
                                      ToManyFromForeignKey(arg.fkey)).Function.Name
    IN /\ one # many
       /\ one \notin GenericNames(arg.table.Name)
       /\ many \notin GenericNames(arg.table.Name)

\* C9 as stated: for every self-referencing foreign key the to-one and to-many
\* accessor names differ from each other and from the generic names.
C9_SelfReferenceNames ==
    (Done("textsFromForeignKey") /\ SelfReferencing(arg.fkey)) => SelfNamesDistinct

\* The column, "_id" stripped, names the table itself (employee_id on employees).
ColumnIsTable(fkey) ==
    Singular(TrimSuffix(fkey.Column, "_id")) = Singular(fkey.Table)

\* C9 amended: the names are distinct and not generic provided the column,
\* "_id" stripped, does not name the table itself; when it is the singular
\* table name, the to-one name is the generic singular and the to-many name
\* the generic plural.
C9_SelfReferenceNamesByColumn ==
    (Done("textsFromForeignKey") /\ SelfReferencing(arg.fkey)) =>
        /\ ~ColumnIsTable(arg.fkey) => SelfNamesDistinct
        /\ ColumnNamesTable(arg.fkey.Column, Singular(arg.fkey.Table)) =>
              /\ ret.val.Function.Name = TitleCase(Singular(arg.table.Name))
              /\ ToManyName(ToManyFromForeignKey(arg.fkey))
                    = TitleCase(Plural(arg.table.Name))

C9_Witness ==
    /\ Done("textsFromForeignKey")
    /\ SelfReferencing(arg.fkey)
    /\ arg.fkey.Table = "employees"
    /\ arg.fkey.Column = "manager_id"
    /\ ret.val.Function.Name = "Manager"
    /\ ToManyName(ToManyFromForeignKey(arg.fkey)) = "ManagerEmployees"

ListingOps == {"TableNames", "Columns", "PrimaryKeyInfo", "ForeignKeyInfo"}

\* C10: a listing operation whose row iteration stopped on a failure returns
\* a non-nil error, never the rows read so far with a nil error.
C10_NoPartialSuccess ==
    (pc = "done" /\ op \in ListingOps /\ rowsErr # NilErr) => ret.err # NilErr

====
